---- MODULE Spec2Model ----
(***************************************************************************)
(* NPI Finder PRO (app2.py): the upload / filter / state-normalisation /   *)
(* aggregation / export pipeline of the dashboard script.                  *)
(*                                                                         *)
(* The script is re-run from top to bottom on every user interaction, so   *)
(* every action below performs one complete run of the script: filter,     *)
(* exports, standardize_state_codes and the group-by aggregates.           *)
(*                                                                         *)
(* A DataFrame is a record [columns, rows]: columns is the sequence of     *)
(* column names, rows the sequence of rows, each row a function from the   *)
(* column names to values.  A dict is the sequence of its <<key, value>>   *)
(* items in insertion order.                                               *)
(***************************************************************************)
EXTENDS Integers, Sequences, FiniteSets, TLC

(***************************************************************************)
(* Bounds of the model.                                                    *)
(***************************************************************************)
\* longest uploaded table drawn freely from RowUniverse
MaxRows == 3
\* number of distinct states in the large uploads (WideTable)
WideGroups == 11

(***************************************************************************)
(* Python values and helpers.                                              *)
(***************************************************************************)
None == "None"

\* ASCII (code point) order of the strings the model compares: the order of
\* Python's str comparison, used by sorted() and by groupby's sorted keys.
AsciiOrder ==
    << "AK", "AL", "AR", "AZ", "Alabama", "Alaska", "Arizona", "Arkansas",
      "CA", "CO", "CT", "California", "Cardiology", "Colorado", "Connecticut",
      "DC", "DE", "Delaware", "District of Columbia", "FL", "Florida", "GA",
      "Georgia", "HI", "Hawaii", "IA", "ID", "IL", "IN", "Idaho", "Illinois",
      "Indiana", "Iowa", "KS", "KY", "Kansas", "Kentucky", "LA", "Louisiana",
      "MA", "MD", "ME", "MI", "MN", "MO", "MS", "MT", "Maine", "Maryland",
      "Massachusetts", "Michigan", "Midwest", "Minnesota", "Mississippi",
      "Missouri", "Montana", "NC", "ND", "NE", "NH", "NJ", "NM", "NV", "NY",
      "Nebraska", "Nevada", "New Hampshire", "New Jersey", "New Mexico",
      "New York", "North Carolina", "North Dakota", "Northeast", "OH", "OK",
      "OR", "Ohio", "Oklahoma", "Oncology", "Oregon", "PA", "Pennsylvania",
      "RI", "Rhode Island", "SC", "SD", "South", "South Carolina",
      "South Dakota", "TN", "TX", "Tennessee", "Texas", "UT", "Unknown",
      "Utah", "VA", "VT", "Vermont", "Virginia", "WA", "WI", "WV", "WY",
      "Washington", "West", "West Virginia", "Wisconsin", "Wyoming", "ZZ",
      "_NM" >>

RankOf ==
    [s \in {AsciiOrder[i] : i \in DOMAIN AsciiOrder} |->
        CHOOSE i \in DOMAIN AsciiOrder : AsciiOrder[i] = s]
Rank(s) == RankOf[s]

\* sorted(S) for a finite set of strings
RECURSIVE sorted(_)
sorted(S) ==
    IF S = {} THEN <<>>
    ELSE LET m == CHOOSE x \in S : \A y \in S : Rank(x) <= Rank(y)
         IN  <<m>> \o sorted(S \ {m})

\* the elements of a list
Elems(l) == {l[i] : i \in DOMAIN l}

\* dict: keys, and d.get(k, default); a later item with the same key
\* overwrites an earlier one
DictKeys(d) == {d[i][1] : i \in DOMAIN d}
DictGet(d, k, default) ==
    LET items == {i \in DOMAIN d : d[i][1] = k}
    IN  IF items = {} THEN default
        ELSE d[CHOOSE i \in items : \A j \in items : j <= i][2]

(***************************************************************************)
(* Reference tables (module level of the script).                          *)
(***************************************************************************)
region_mapping ==
    << <<"Northeast", <<"ME", "NH", "VT", "MA", "RI", "CT", "NY", "NJ", "PA">> >>,
       <<"Midwest", <<"OH", "MI", "IN", "IL", "WI", "MN", "IA", "MO", "ND", "SD",
                      "NE", "KS">> >>,
       <<"South", <<"DE", "MD", "DC", "VA", "WV", "NC", "SC", "GA", "FL", "KY",
                    "TN", "AL", "MS", "AR", "LA", "OK", "TX">> >>,
       <<"West", <<"MT", "ID", "WY", "CO", "NM", "AZ", "UT", "NV", "WA", "OR",
                   "CA", "AK", "HI">> >> >>

state_code_to_name ==
    << <<"AL", "Alabama">>, <<"AK", "Alaska">>, <<"AZ", "Arizona">>,
      <<"AR", "Arkansas">>, <<"CA", "California">>, <<"CO", "Colorado">>,
      <<"CT", "Connecticut">>, <<"DE", "Delaware">>, <<"FL", "Florida">>,
      <<"GA", "Georgia">>, <<"HI", "Hawaii">>, <<"ID", "Idaho">>,
      <<"IL", "Illinois">>, <<"IN", "Indiana">>, <<"IA", "Iowa">>,
      <<"KS", "Kansas">>, <<"KY", "Kentucky">>, <<"LA", "Louisiana">>,
      <<"ME", "Maine">>, <<"MD", "Maryland">>, <<"MA", "Massachusetts">>,
      <<"MI", "Michigan">>, <<"MN", "Minnesota">>, <<"MS", "Mississippi">>,
      <<"MO", "Missouri">>, <<"MT", "Montana">>, <<"NE", "Nebraska">>,
      <<"NV", "Nevada">>, <<"NH", "New Hampshire">>, <<"NJ", "New Jersey">>,
      <<"_NM", "New Mexico">>, <<"NY", "New York">>,
      <<"NC", "North Carolina">>, <<"ND", "North Dakota">>, <<"OH", "Ohio">>,
      <<"OK", "Oklahoma">>, <<"OR", "Oregon">>, <<"PA", "Pennsylvania">>,
      <<"RI", "Rhode Island">>, <<"SC", "South Carolina">>,
      <<"SD", "South Dakota">>, <<"TN", "Tennessee">>, <<"TX", "Texas">>,
      <<"UT", "Utah">>, <<"VT", "Vermont">>, <<"VA", "Virginia">>,
      <<"WA", "Washington">>, <<"WV", "West Virginia">>,
      <<"WI", "Wisconsin">>, <<"WY", "Wyoming">>,
      <<"DC", "District of Columbia">> >>

\* the comprehension with key and value not exchanged: {k: v for k, v in ...}
state_name_to_code_unswapped ==
    [i \in DOMAIN state_code_to_name |->
        <<state_code_to_name[i][1], state_code_to_name[i][2]>>]

\* {v: k for k, v in state_code_to_name.items()}
state_name_to_code ==
    [i \in DOMAIN state_code_to_name |->
        <<state_code_to_name[i][2], state_code_to_name[i][1]>>]

\* get_region returning from the first iteration of the loop
get_region_first(state_code) == region_mapping[1][1]

\* get_region: linear scan of region_mapping in insertion order
get_region(state_code) ==
    LET hits == {i \in DOMAIN region_mapping :
                    state_code \in Elems(region_mapping[i][2])}
    IN  IF hits = {} THEN "Unknown"
        ELSE region_mapping[CHOOSE i \in hits : \A j \in hits : i <= j][1]

(***************************************************************************)
(* DataFrame helpers.                                                      *)
(***************************************************************************)
\* df[mask]: the rows at the indexes I, in their order
RECURSIVE AtIndexes(_, _)
AtIndexes(rows, I) ==
    IF I = {} THEN <<>>
    ELSE LET m == CHOOSE i \in I : \A j \in I : i <= j
         IN  <<rows[m]>> \o AtIndexes(rows, I \ {m})

\* df[col].unique() as a set
Unique(frame, col) == {frame.rows[i][col] : i \in DOMAIN frame.rows}

\* df[col] = values: a new (or replaced) column, values[i] the cell of row i
AddColumn(frame, col, values) ==
    [columns |-> IF col \in Elems(frame.columns) THEN frame.columns
                 ELSE Append(frame.columns, col),
     rows    |-> [i \in DOMAIN frame.rows |->
                    (col :> values[i]) @@ frame.rows[i]]]

\* number of rows of the frame whose column col holds v
CountOf(frame, col, v) ==
    Cardinality({i \in DOMAIN frame.rows : frame.rows[i][col] = v})

\* round(x, 1) of the percentage 100 * n / total, in tenths of a percent
\* (round half to even, as pandas/numpy round)
Percentage(n, total) ==
    LET q == (n * 1000) \div total
        r == (n * 1000) % total
    IN  IF 2 * r > total \/ (2 * r = total /\ q % 2 = 1) THEN q + 1 ELSE q

(***************************************************************************)
(* The script, stage by stage.                                             *)
(***************************************************************************)
BaseColumns == <<"NPI", "Speciality", "State", "Region", "Usage Time (mins)">>

\* lines 105-106: the option lists of the two select boxes
specialties(frame) == sorted(Unique(frame, "Speciality"))
regions(frame) == sorted(Unique(frame, "Region"))

\* the region filter applied to the region the row's state resolves to
ApplyFilters_resolved(frame, specialty, region) ==
    LET by_specialty ==
            AtIndexes(frame.rows, {i \in DOMAIN frame.rows :
                                     frame.rows[i]["Speciality"] = specialty})
    IN  [columns |-> frame.columns,
         rows    |-> IF region # None
                     THEN AtIndexes(by_specialty,
                              {i \in DOMAIN by_specialty :
                                 get_region(by_specialty[i]["State"]) = region})
                     ELSE by_specialty]

\* lines 119-123: the two equality filters
ApplyFilters(frame, specialty, region) ==
    LET by_specialty ==
            AtIndexes(frame.rows, {i \in DOMAIN frame.rows :
                                     frame.rows[i]["Speciality"] = specialty})
    IN  [columns |-> frame.columns,
         rows    |-> IF region # None
                     THEN AtIndexes(by_specialty,
                              {i \in DOMAIN by_specialty :
                                 by_specialty[i]["Region"] = region})
                     ELSE by_specialty]

\* line 136: filtered_df.to_csv(index=False): the header line, then one
\* line of cell values per row
to_csv(frame) ==
    <<frame.columns>> \o
    [i \in DOMAIN frame.rows |->
        [c \in DOMAIN frame.columns |-> frame.rows[i][frame.columns[c]]]]

\* to_excel(header=False): the sheet starts with the first data row
to_excel_noheader(frame) ==
    [sheet_name |-> "Sheet1",
     cells |-> [rc \in (0 .. Len(frame.rows) - 1) \X DOMAIN frame.columns |->
                  frame.rows[rc[1] + 1][frame.columns[rc[2]]]]]

\* lines 139-142: filtered_df.to_excel(index=False, sheet_name='Sheet1'):
\* one sheet, the header in row 0, the cells of data row i in sheet row i
to_excel(frame) ==
    [sheet_name |-> "Sheet1",
     cells |-> [rc \in (0 .. Len(frame.rows)) \X DOMAIN frame.columns |->
                  IF rc[1] = 0 THEN frame.columns[rc[2]]
                  ELSE frame.rows[rc[1]][frame.columns[rc[2]]]]]

\* line 186 with iloc[-1]: the form is read off the last row
is_full_name_last(data_df) ==
    Len(data_df.rows[Len(data_df.rows)]["State"]) > 2

\* line 186: the form of the whole table, read off its first row
is_full_name(data_df) == Len(data_df.rows[1]["State"]) > 2

\* lines 186-190 with the form decided row by row
StateCodeColumn_per_row(data_df) ==
    [i \in DOMAIN data_df.rows |->
        IF Len(data_df.rows[i]["State"]) > 2
        THEN DictGet(state_name_to_code, data_df.rows[i]["State"],
                     data_df.rows[i]["State"])
        ELSE data_df.rows[i]["State"]]

\* lines 186-190: the StateCode column
StateCodeColumn(data_df) ==
    [i \in DOMAIN data_df.rows |->
        IF is_full_name(data_df)
        THEN DictGet(state_name_to_code, data_df.rows[i]["State"],
                     data_df.rows[i]["State"])
        ELSE data_df.rows[i]["State"]]

\* line 195 without the "| data_df['State'].isin(valid_states)" operand
valid_rows_code_only(data_df, valid_states) ==
    {i \in DOMAIN data_df.rows : data_df.rows[i]["StateCode"] \in valid_states}

\* line 195: the indexes of the rows that pass the allow-list
valid_rows(data_df, valid_states) ==
    {i \in DOMAIN data_df.rows :
        \/ data_df.rows[i]["StateCode"] \in valid_states
        \/ data_df.rows[i]["State"] \in valid_states}

\* lines 178-206
standardize_state_codes(df_to_process) ==
    LET data_df == df_to_process
        valid_states == Unique(df_to_process, "State")
        State == [i \in DOMAIN data_df.rows |-> data_df.rows[i]["State"]]
        with_code ==
            IF is_full_name(data_df)
            THEN AddColumn(data_df, "StateCode", StateCodeColumn(data_df))
            ELSE AddColumn(
                     AddColumn(data_df, "StateCode", StateCodeColumn(data_df)),
                     "StateName",
                     [i \in DOMAIN State |->
                        DictGet(state_code_to_name, State[i], State[i])])
        kept ==
            [columns |-> with_code.columns,
             rows    |-> AtIndexes(with_code.rows,
                                   valid_rows(with_code, valid_states))]
    IN  IF Len(data_df.rows) > 0
        THEN AddColumn(kept, "MappedRegion",
                       [i \in DOMAIN kept.rows |->
                          get_region(kept.rows[i]["StateCode"])])
        ELSE data_df

\* the per-state counts without the region restriction of lines 230-232
StateCounts_unrestricted(frame, region) ==
    LET codes == sorted(Unique(frame, "StateCode"))
    IN  [i \in DOMAIN codes |->
           [StateCode |-> codes[i],
            NPI_Count |-> CountOf(frame, "StateCode", codes[i]),
            name      |-> DictGet(state_code_to_name, codes[i], codes[i]),
            Region    |-> get_region(codes[i])]]

\* lines 217-232: the per-state counts of the choropleth and the bar chart
StateCounts(frame, region) ==
    LET codes == sorted(Unique(frame, "StateCode"))
        all == [i \in DOMAIN codes |->
                  [StateCode |-> codes[i],
                   NPI_Count |-> CountOf(frame, "StateCode", codes[i]),
                   name      |-> DictGet(state_code_to_name, codes[i], codes[i]),
                   Region    |-> get_region(codes[i])]]
    IN  IF region # None
        THEN AtIndexes(all, {i \in DOMAIN all :
                 all[i].StateCode \in Elems(DictGet(region_mapping, region, <<>>))})
        ELSE all

\* lines 305-306: the regional pie (no region selected)
RegionCounts(frame) ==
    LET names == sorted(Unique(frame, "MappedRegion"))
    IN  [i \in DOMAIN names |->
           [MappedRegion |-> names[i],
            NPI_Count    |-> CountOf(frame, "MappedRegion", names[i]),
            Percentage   |-> Percentage(CountOf(frame, "MappedRegion", names[i]),
                                        Len(frame.rows))]]

\* lines 325-326: the state pie (a region selected)
RegionStates(frame) ==
    LET codes == sorted(Unique(frame, "StateCode"))
    IN  [i \in DOMAIN codes |->
           [StateCode |-> codes[i],
            NPI_Count |-> CountOf(frame, "StateCode", codes[i]),
            name      |-> DictGet(state_code_to_name, codes[i], codes[i])]]

\* line 454: groupby(['StateCode', 'State']).size(): one group per pair
\* present, the groups in ascending (StateCode, State) order
RECURSIVE SortedPairs(_)
SortedPairs(S) ==
    IF S = {} THEN <<>>
    ELSE LET m == CHOOSE x \in S : \A y \in S :
                     \/ Rank(x[1]) < Rank(y[1])
                     \/ (x[1] = y[1] /\ Rank(x[2]) <= Rank(y[2]))
         IN  <<m>> \o SortedPairs(S \ {m})

GroupByStateCodeState(frame) ==
    LET pairs == SortedPairs({<<frame.rows[i]["StateCode"], frame.rows[i]["State"]>> :
                                 i \in DOMAIN frame.rows})
    IN  [k \in DOMAIN pairs |->
           [StateCode  |-> pairs[k][1],
            State      |-> pairs[k][2],
            Count      |-> Cardinality({i \in DOMAIN frame.rows :
                               /\ frame.rows[i]["StateCode"] = pairs[k][1]
                               /\ frame.rows[i]["State"] = pairs[k][2]}),
            StateName  |-> DictGet(state_code_to_name, pairs[k][1], pairs[k][1])]]

\* line 456: sort_values('Count', ascending=False) with the default
\* kind='quicksort', which is not a stable sort: every order of the groups
\* with non-increasing Count is a possible result
RECURSIVE Orders(_, _)
Orders(g, I) ==
    IF I = {} THEN {<<>>}
    ELSE UNION {{<<g[i]>> \o rest : rest \in Orders(g, I \ {i})} :
                   i \in {i \in I : \A j \in I : g[j].Count <= g[i].Count}}

\* sort_values('Count') with ascending left at its default of True
RECURSIVE OrdersAscending(_, _)
OrdersAscending(g, I) ==
    IF I = {} THEN {<<>>}
    ELSE UNION {{<<g[i]>> \o rest : rest \in OrdersAscending(g, I \ {i})} :
                   i \in {i \in I : \A j \in I : g[j].Count >= g[i].Count}}

sort_values_ascending(g) == OrdersAscending(g, DOMAIN g)

sort_values(g) == Orders(g, DOMAIN g)

\* line 456: .head(10)
TopN == 10
head(l, n) == SubSeq(l, 1, IF Len(l) < n THEN Len(l) ELSE n)

\* lines 454-456: the possible Top-10 tables
TopStates(frame) == {head(o, TopN) : o \in sort_values(GroupByStateCodeState(frame))}

(***************************************************************************)
(* State.                                                                  *)
(***************************************************************************)
VARIABLES
    uploaded_file,       \* TRUE when a file is in the uploader
    df,                  \* the uploaded table (line 95)
    selected_specialty,  \* value of the specialty select box (line 110)
    selected_region,     \* value of the region select box after line 116
    status,              \* how the run ended: "info", "warning", "error", "done"
    filtered_df,         \* lines 120-123
    csv_data,            \* line 136
    excel_data,          \* line 142
    processed_df,        \* line 209
    state_counts,        \* lines 217-232
    region_counts,       \* line 305
    region_states,       \* line 325
    top_states,          \* line 456
    ref                  \* a look-up in the reference tables (RefSpec)

vars == <<uploaded_file, df, selected_specialty, selected_region, status,
          filtered_df, csv_data, excel_data, processed_df, state_counts,
          region_counts, region_states, top_states, ref>>

outputs == <<status, filtered_df, csv_data, excel_data, processed_df,
             state_counts, region_counts, region_states, top_states>>

\* a value the run did not compute
NotComputed == <<>>

(***************************************************************************)
(* One run of the script body (lines 93-511) on table t with the select    *)
(* boxes holding specialty and region.  groupby('StateCode') at line 217   *)
(* raises KeyError when the frame has no StateCode column; the handler at  *)
(* line 509 reports it and stops the run, after the exports of lines       *)
(* 136-159 and the normalisation of line 209 have been produced.           *)
(***************************************************************************)
Run(t, specialty, region) ==
    LET f == ApplyFilters(t, specialty, region)
        p == standardize_state_codes(f)
    IN  IF specialty = None
        THEN /\ status' = "warning"
             /\ filtered_df' = NotComputed
             /\ csv_data' = NotComputed
             /\ excel_data' = NotComputed
             /\ processed_df' = NotComputed
             /\ state_counts' = NotComputed
             /\ region_counts' = NotComputed
             /\ region_states' = NotComputed
             /\ top_states' = NotComputed
        ELSE /\ filtered_df' = f
             /\ csv_data' = to_csv(f)
             /\ excel_data' = to_excel(f)
             /\ processed_df' = p
             /\ IF "StateCode" \notin Elems(p.columns)
                THEN /\ status' = "error"
                     /\ state_counts' = NotComputed
                     /\ region_counts' = NotComputed
                     /\ region_states' = NotComputed
                     /\ top_states' = NotComputed
                ELSE /\ status' = "done"
                     /\ state_counts' = StateCounts(p, region)
                     /\ region_counts' = IF region = None THEN RegionCounts(p)
                                         ELSE NotComputed
                     /\ region_states' = IF region = None THEN NotComputed
                                         ELSE RegionStates(p)
                     /\ top_states' \in TopStates(p)

(***************************************************************************)
(* Uploads.                                                                *)
(***************************************************************************)
Specialities == {"Cardiology", "Oncology"}
RawRegions == {"Northeast", "West"}
StateValues == {"NY", "NM", "ZZ", "New York", "New Mexico"}

\* the (Speciality, State, Region) cells of one uploaded row
RowUniverse ==
    {c \in Specialities \X StateValues \X RawRegions :
        /\ ~(c[1] = "Oncology" /\ c[3] = "Northeast")
        /\ c[2] \in {"NY", "New York"} \/ (c[1] = "Cardiology" /\ c[3] = "West")}

Row(npi, c) ==
    ("NPI" :> npi) @@ ("Speciality" :> c[1]) @@ ("State" :> c[2])
    @@ ("Region" :> c[3]) @@ ("Usage Time (mins)" :> 45)

Frame(cells) ==
    [columns |-> BaseColumns,
     rows    |-> [i \in DOMAIN cells |-> Row(i, cells[i])]]

SmallTables ==
    {Frame(cells) : cells \in UNION {[1 .. n -> RowUniverse] : n \in 0 .. MaxRows}}

\* a large upload: WideGroups states, first seen in the order of WideStates,
\* the k-th with k rows, except that for tie >= 1 state tie+1 has as many
\* rows as state tie
WideStates ==
    <<"TX", "CA", "NY", "FL", "IL", "PA", "OH", "GA", "NC", "MI", "NJ",
      "VA", "WA", "AZ">>

WideCount(k, tie) == IF tie >= 1 /\ k = tie + 1 THEN tie ELSE k

RECURSIVE WideCells(_, _)
WideCells(k, tie) ==
    IF k > WideGroups THEN <<>>
    ELSE [i \in 1 .. WideCount(k, tie) |-> <<"Cardiology", WideStates[k], "West">>]
         \o WideCells(k + 1, tie)

WideTables == {Frame(WideCells(1, tie)) : tie \in 0 .. WideGroups - 1}

Tables == SmallTables \cup WideTables

(***************************************************************************)
(* Initial state: no file uploaded (lines 513-534).                        *)
(***************************************************************************)
MainInit ==
    /\ uploaded_file = FALSE
    /\ df = NotComputed
    /\ selected_specialty = None
    /\ selected_region = None
    /\ status = "info"
    /\ filtered_df = NotComputed
    /\ csv_data = NotComputed
    /\ excel_data = NotComputed
    /\ processed_df = NotComputed
    /\ state_counts = NotComputed
    /\ region_counts = NotComputed
    /\ region_states = NotComputed
    /\ top_states = NotComputed

RefIdle == [pc |-> "idle"]

Init == MainInit /\ ref = RefIdle

(***************************************************************************)
(* User interactions; each re-runs the script.                             *)
(***************************************************************************)
\* a file is put in the empty uploader (replacing a file is RemoveFile
\* followed by Upload): both select boxes hold their first option (index 0)
Upload(t) ==
    /\ ~uploaded_file
    /\ uploaded_file' = TRUE
    /\ df' = t
    /\ selected_specialty' =
           IF specialties(t) = <<>> THEN None ELSE specialties(t)[1]
    /\ selected_region' = None
    /\ Run(t, selected_specialty', selected_region')
    /\ UNCHANGED ref

\* the specialty select box is changed (line 110)
SelectSpecialty(s) ==
    /\ uploaded_file
    /\ s \in Elems(specialties(df))
    /\ s # selected_specialty
    /\ selected_specialty' = s
    /\ Run(df, s, selected_region)
    /\ UNCHANGED <<uploaded_file, df, selected_region, ref>>

\* the region select box is changed (lines 113-116); "All Regions" is None
SelectRegion(r) ==
    /\ uploaded_file
    /\ r \in {None} \cup Elems(regions(df))
    /\ r # selected_region
    /\ selected_region' = r
    /\ Run(df, selected_specialty, r)
    /\ UNCHANGED <<uploaded_file, df, selected_specialty, ref>>

\* the file is removed from the uploader (line 513)
RemoveFile ==
    /\ uploaded_file
    /\ uploaded_file' = FALSE
    /\ df' = NotComputed
    /\ selected_specialty' = None
    /\ selected_region' = None
    /\ status' = "info"
    /\ filtered_df' = NotComputed
    /\ csv_data' = NotComputed
    /\ excel_data' = NotComputed
    /\ processed_df' = NotComputed
    /\ state_counts' = NotComputed
    /\ region_counts' = NotComputed
    /\ region_states' = NotComputed
    /\ top_states' = NotComputed
    /\ UNCHANGED ref

Next ==
    \/ \E t \in Tables : Upload(t)
    \/ \E s \in Specialities : SelectSpecialty(s)
    \/ \E r \in RawRegions \cup {None} : SelectRegion(r)
    \/ RemoveFile

Spec == Init /\ [][Next]_vars

(***************************************************************************)
(* The reference tables on their own: one code is looked up through        *)
(* state_code_to_name (line 192), the result through state_name_to_code    *)
(* (line 188), and the code through get_region (lines 198-202).            *)
(***************************************************************************)
RegionCodes == UNION {Elems(region_mapping[i][2]) : i \in DOMAIN region_mapping}

RefCodes == DictKeys(state_code_to_name) \cup RegionCodes \cup {"ZZ"}

\* the regions whose member list holds the code
RegionsOf(state_code) ==
    {region_mapping[i][1] : i \in {j \in DOMAIN region_mapping :
                                     state_code \in Elems(region_mapping[j][2])}}

RefInit ==
    /\ MainInit
    /\ ref \in {[pc |-> "code", code |-> c, name |-> None, back |-> None,
                 region |-> None, member_of |-> {}] : c \in RefCodes}

LookupName ==
    /\ ref.pc = "code"
    /\ ref' = [ref EXCEPT !.pc = "name",
                          !.name = DictGet(state_code_to_name, ref.code, ref.code)]
    /\ UNCHANGED <<uploaded_file, df, selected_specialty, selected_region, outputs>>

LookupCode ==
    /\ ref.pc = "name"
    /\ ref' = [ref EXCEPT !.pc = "back",
                          !.back = DictGet(state_name_to_code, ref.name, ref.name)]
    /\ UNCHANGED <<uploaded_file, df, selected_specialty, selected_region, outputs>>

LookupRegion ==
    /\ ref.pc = "back"
    /\ ref' = [ref EXCEPT !.pc = "region",
                          !.region = get_region(ref.code),
                          !.member_of = RegionsOf(ref.code)]
    /\ UNCHANGED <<uploaded_file, df, selected_specialty, selected_region, outputs>>

RefNext == LookupName \/ LookupCode \/ LookupRegion

RefSpec == RefInit /\ [][RefNext]_vars

(***************************************************************************)
(* Properties.                                                             *)
(***************************************************************************)
\* the run got as far as the exports and the normaliser
Rendered == status \in {"done", "error"}

\* the form standardize_state_codes detects on its input
CodeForm == Len(filtered_df.rows) > 0 /\ Len(filtered_df.rows[1]["State"]) <= 2
NameForm == Len(filtered_df.rows) > 0 /\ Len(filtered_df.rows[1]["State"]) > 2

StateNames == {state_code_to_name[i][2] : i \in DOMAIN state_code_to_name}

\* C1: in a code-form table every row whose State is the code of a state of
\* the four region lists is kept, and gets that code as resolved code, a
\* display name that is not the code itself (the state's full name), and
\* the region whose member list holds the code.
C1_CodeFormResolved ==
    (Rendered /\ CodeForm) =>
        /\ Len(processed_df.rows) = Len(filtered_df.rows)
        /\ \A i \in DOMAIN processed_df.rows :
              LET r == processed_df.rows[i]
              IN  r["State"] \in RegionCodes =>
                     /\ r["StateCode"] = r["State"]
                     /\ r["StateName"] # r["State"]
                     /\ Len(r["StateName"]) > 2
                     /\ RegionsOf(r["State"]) = {r["MappedRegion"]}

\* C2: in a name-form table every row whose State is a display name of the
\* reference table is kept, and gets a 2-letter resolved code and the
\* region whose member list holds that code, never "Unknown".
C2_NameFormResolved ==
    (Rendered /\ NameForm) =>
        /\ Len(processed_df.rows) = Len(filtered_df.rows)
        /\ \A i \in DOMAIN processed_df.rows :
              LET r == processed_df.rows[i]
              IN  r["State"] \in StateNames =>
                     /\ Len(r["StateCode"]) = 2
                     /\ r["MappedRegion"] # "Unknown"
                     /\ RegionsOf(r["StateCode"]) = {r["MappedRegion"]}

\* C6: every key of state_code_to_name is a member of exactly one of the
\* four region lists.
C6_RegionPartition ==
    (ref.pc = "region" /\ ref.code \in DictKeys(state_code_to_name)) =>
        Cardinality(ref.member_of) = 1

\* C10: for every key c of state_code_to_name, the code looked up for the
\* name looked up for c is c.
C10_RoundTrip ==
    (ref.pc \in {"back", "region"} /\ ref.code \in DictKeys(state_code_to_name)) =>
        ref.back = ref.code

C10_Witness ==
    /\ ref.pc = "back"
    /\ ref.code = "NY"
    /\ ref.name = "New York"
    /\ ref.back = "NY"

\* the uploaded rows that the selection asks for
Selected(r) ==
    /\ r["Speciality"] = selected_specialty
    /\ selected_region # None => r["Region"] = selected_region

\* C3: the filtered table consists of exactly the uploaded rows whose
\* Speciality is the chosen one and, when a region is chosen, whose
\* as-supplied Region equals it, in upload order, whatever region their
\* state resolves to.
C3_FilterExact ==
    Rendered =>
        /\ filtered_df.columns = df.columns
        /\ \A i \in DOMAIN df.rows :
              df.rows[i] \in Elems(filtered_df.rows) <=> Selected(df.rows[i])
        /\ Len(filtered_df.rows) =
              Cardinality({i \in DOMAIN df.rows : Selected(df.rows[i])})
        /\ \A i, j \in DOMAIN filtered_df.rows :
              i < j => filtered_df.rows[i]["NPI"] < filtered_df.rows[j]["NPI"]

C3_Witness ==
    /\ status = "done"
    /\ selected_region = "West"
    /\ Len(filtered_df.rows) < Len(df.rows)
    /\ \E i \in DOMAIN processed_df.rows :
          processed_df.rows[i]["MappedRegion"] = "Northeast"
    /\ \E i \in DOMAIN df.rows :
          /\ df.rows[i]["Speciality"] = selected_specialty
          /\ df.rows[i]["Region"] = "Northeast"
          /\ get_region(df.rows[i]["State"]) = "Northeast"

\* C4: a selection whose filter leaves zero rows is rendered to the end,
\* with zero-row aggregates, and never ends in the error state.
C4_EmptyResultNoError ==
    (uploaded_file /\ selected_specialty # None /\ filtered_df.rows = <<>>) =>
        /\ status = "done"
        /\ state_counts = <<>>
        /\ top_states = <<>>

\* the resolved state codes of the normalised table
ProcessedCodes ==
    IF "StateCode" \in Elems(processed_df.columns)
    THEN Unique(processed_df, "StateCode") ELSE {}

RECURSIVE SumCounts(_)
SumCounts(l) == IF l = <<>> THEN 0 ELSE Head(l).NPI_Count + SumCounts(Tail(l))

\* C5 as stated: with or without a region filter the per-state count has
\* one entry per resolved state code of the normalised table, counting the
\* rows with that code, so the counts sum to the number of rows.
C5_StateCountsAllCodes ==
    status = "done" =>
        /\ {state_counts[k].StateCode : k \in DOMAIN state_counts} = ProcessedCodes
        /\ \A k \in DOMAIN state_counts :
              state_counts[k].NPI_Count =
                  CountOf(processed_df, "StateCode", state_counts[k].StateCode)
        /\ SumCounts(state_counts) = Len(processed_df.rows)

\* the resolved codes the per-state count shows under the selection
ShownCodes ==
    IF selected_region = None THEN ProcessedCodes
    ELSE {c \in ProcessedCodes : selected_region \in RegionsOf(c)}

\* C5 as amended: the per-state count has one entry per resolved state code
\* of the normalised table that, when a region is selected, is also in that
\* region's member list; each entry counts the rows with that code, so the
\* counts sum to the number of rows whose code is shown (all rows when no
\* region is selected).
C5_StateCountsShownCodes ==
    Rendered =>
        /\ {state_counts[k].StateCode : k \in DOMAIN state_counts} = ShownCodes
        /\ Len(state_counts) = Cardinality(ShownCodes)
        /\ \A k \in DOMAIN state_counts :
              state_counts[k].NPI_Count =
                  CountOf(processed_df, "StateCode", state_counts[k].StateCode)
        /\ SumCounts(state_counts) =
              Cardinality({i \in DOMAIN processed_df.rows :
                              processed_df.rows[i]["StateCode"] \in ShownCodes})
        /\ selected_region = None =>
              SumCounts(state_counts) = Len(processed_df.rows)

C5_Witness ==
    /\ status = "done"
    /\ selected_region # None
    /\ state_counts # <<>>
    /\ ShownCodes # ProcessedCodes
    /\ SumCounts(state_counts) < Len(processed_df.rows)

RegionNames == {region_mapping[i][1] : i \in DOMAIN region_mapping}

\* C7: in every normalised record the resolved region is one of the four
\* region names or "Unknown"; it is a region name only if the resolved code
\* is in that region's member list, and "Unknown" only if the code is in
\* none of the four lists.
C7_RegionConsistent ==
    status = "done" =>
        \A i \in DOMAIN processed_df.rows :
           LET r == processed_df.rows[i]
           IN  /\ r["MappedRegion"] \in RegionNames \cup {"Unknown"}
               /\ r["MappedRegion"] # "Unknown" =>
                     r["StateCode"] \in
                        Elems(DictGet(region_mapping, r["MappedRegion"], <<>>))
               /\ r["MappedRegion"] = "Unknown" =>
                     \A k \in DOMAIN region_mapping :
                        r["StateCode"] \notin Elems(region_mapping[k][2])

C7_Witness ==
    /\ status = "done"
    /\ \E i, j, k \in DOMAIN processed_df.rows :
          /\ processed_df.rows[i]["MappedRegion"] = "Unknown"
          /\ processed_df.rows[j]["MappedRegion"] = "Northeast"
          /\ processed_df.rows[k]["MappedRegion"] = "West"

\* the cells of a frame: header line, then one line per row
Cells(frame) ==
    <<frame.columns>> \o
    [i \in DOMAIN frame.rows |->
        [c \in DOMAIN frame.columns |-> frame.rows[i][frame.columns[c]]]]

\* the cells of the single sheet of the workbook, line by line
SheetLines(book) ==
    LET last_row == CHOOSE n \in 0 .. Cardinality(DOMAIN book.cells) :
                       /\ \E rc \in DOMAIN book.cells : rc[1] = n
                       /\ \A rc \in DOMAIN book.cells : rc[1] <= n
        width == Cardinality({rc \in DOMAIN book.cells : rc[1] = 0})
    IN  [n \in 1 .. last_row + 1 |-> [c \in 1 .. width |-> book.cells[<<n - 1, c>>]]]

\* C8 as stated: the CSV export has the rows and the columns of the filtered
\* and normalised table, resolved code, name and region columns included,
\* and the Excel export has the same content.
C8_ExportNormalized ==
    status = "done" =>
        /\ csv_data = Cells(processed_df)
        /\ {"StateCode", "MappedRegion"} \subseteq Elems(csv_data[1])
        /\ SheetLines(excel_data) = csv_data

\* C8 as amended: the CSV export has the rows and the columns of the
\* filtered table as it is before normalisation (the uploaded columns only,
\* no resolved code, name or region column), and the Excel export has the
\* same content.
C8_ExportFiltered ==
    Rendered =>
        /\ csv_data = Cells(filtered_df)
        /\ csv_data[1] = df.columns
        /\ Elems(csv_data[1]) \cap {"StateCode", "StateName", "MappedRegion"} = {}
        /\ SheetLines(excel_data) = csv_data

C8_Witness ==
    /\ status = "done"
    /\ Len(csv_data) > 2
    /\ {"StateCode", "StateName", "MappedRegion"} \subseteq Elems(processed_df.columns)
    /\ SheetLines(excel_data) = csv_data

\* the (StateCode, State) groups of the normalised table
Groups ==
    IF "StateCode" \in Elems(processed_df.columns)
    THEN {<<processed_df.rows[i]["StateCode"], processed_df.rows[i]["State"]>> :
             i \in DOMAIN processed_df.rows}
    ELSE {}

GroupSize(g) ==
    Cardinality({i \in DOMAIN processed_df.rows :
                    /\ processed_df.rows[i]["StateCode"] = g[1]
                    /\ processed_df.rows[i]["State"] = g[2]})

\* position of the first row of the group in the table
FirstSeen(g) ==
    CHOOSE i \in DOMAIN processed_df.rows :
        /\ <<processed_df.rows[i]["StateCode"], processed_df.rows[i]["State"]>> = g
        /\ \A j \in DOMAIN processed_df.rows :
              <<processed_df.rows[j]["StateCode"], processed_df.rows[j]["State"]>> = g
                  => i <= j

Listed == {<<top_states[k].StateCode, top_states[k].State>> : k \in DOMAIN top_states}

\* at most TopN entries, one per group, each with its row count, counts
\* non-increasing, and no group left out while a smaller one is listed
TopByCount ==
    /\ Len(top_states) = (IF Cardinality(Groups) < TopN THEN Cardinality(Groups) ELSE TopN)
    /\ Listed \subseteq Groups
    /\ Cardinality(Listed) = Len(top_states)
    /\ \A k \in DOMAIN top_states :
          top_states[k].Count = GroupSize(<<top_states[k].StateCode, top_states[k].State>>)
    /\ \A i, j \in DOMAIN top_states :
          i < j => top_states[i].Count >= top_states[j].Count
    /\ \A g \in Groups \ Listed :
          \A k \in DOMAIN top_states : GroupSize(g) <= top_states[k].Count

\* C9 as stated: at most 10 entries sorted by count descending; among equal
\* counts the state first seen earlier in the input table comes first, and
\* that order also decides which tied states fall inside the 10-entry cut.
C9_TopStatesFirstSeen ==
    status = "done" =>
        /\ TopByCount
        /\ \A i, j \in DOMAIN top_states :
              (i < j /\ top_states[i].Count = top_states[j].Count) =>
                 FirstSeen(<<top_states[i].StateCode, top_states[i].State>>)
                    < FirstSeen(<<top_states[j].StateCode, top_states[j].State>>)
        /\ \A g \in Groups \ Listed :
              \A k \in DOMAIN top_states :
                 GroupSize(g) = top_states[k].Count =>
                    FirstSeen(<<top_states[k].StateCode, top_states[k].State>>)
                       < FirstSeen(g)

\* C9 as amended: at most 10 entries, sorted by provider count descending,
\* holding groups of largest count (no group that is left out has more
\* providers than a listed one); the order among equal counts, and which of
\* the tied groups fall inside the 10-entry cut, is not fixed by the order
\* of the input rows.
C9_TopStatesByCount ==
    Rendered => TopByCount

C9_Witness ==
    /\ status = "done"
    /\ Len(top_states) = TopN
    /\ Cardinality(Groups) > TopN
    /\ \E g \in Groups \ Listed :
          GroupSize(g) = top_states[TopN].Count

\* the allow-list of the normaliser: the distinct raw State values of its
\* own input, the filtered table
AllowList == {filtered_df.rows[i]["State"] : i \in DOMAIN filtered_df.rows}

\* the resolved code the first-row rule gives the row
ResolvedCode(r) ==
    IF NameForm THEN DictGet(state_name_to_code, r["State"], r["State"])
    ELSE r["State"]

\* the NPIs of the normalised rows, in order
ProcessedNPIs == [i \in DOMAIN processed_df.rows |-> processed_df.rows[i]["NPI"]]

\* C11: a row of the normaliser's input is kept exactly when its resolved
\* code or its raw State is in the allow-list; so for every non-empty input
\* the normalised table has exactly the rows of the filtered table, in the
\* same order, whether or not their state could be mapped.
C11_RowRetention ==
    (Rendered /\ Len(filtered_df.rows) > 0) =>
        /\ \A i \in DOMAIN filtered_df.rows :
              (\E k \in DOMAIN processed_df.rows :
                  processed_df.rows[k]["NPI"] = filtered_df.rows[i]["NPI"])
              <=> \/ ResolvedCode(filtered_df.rows[i]) \in AllowList
                  \/ filtered_df.rows[i]["State"] \in AllowList
        /\ ProcessedNPIs =
              [i \in DOMAIN filtered_df.rows |-> filtered_df.rows[i]["NPI"]]
        /\ \A i \in DOMAIN processed_df.rows :
              \A c \in Elems(filtered_df.columns) :
                 processed_df.rows[i][c] = filtered_df.rows[i][c]

\* a name-form render that keeps a row whose resolved code is outside the
\* allow-list, a row that could not be mapped, and a code-form row
C11_Witness ==
    /\ status = "done"
    /\ NameForm
    /\ Len(processed_df.rows) = Len(filtered_df.rows)
    /\ \E i, j \in DOMAIN processed_df.rows :
          /\ processed_df.rows[i]["StateCode"] \notin AllowList
          /\ processed_df.rows[j]["State"] = "ZZ"
          /\ processed_df.rows[j]["MappedRegion"] = "Unknown"

\* C12: the form is decided once per normalisation, from the first row of
\* the table handed to the normaliser: if that row's State is longer than 2,
\* every row's resolved code is the name-to-code look-up of its State with
\* identity fallback, otherwise every row's resolved code is its raw State.
\* Rows of the other form follow the same rule: in a code-form table a row
\* holding a full state name keeps the name as its code and resolves to
\* region "Unknown".
C12_SingleFormDecision ==
    (Rendered /\ Len(filtered_df.rows) > 0) =>
        /\ Len(processed_df.rows) = Len(filtered_df.rows)
        /\ \A i \in DOMAIN processed_df.rows :
              LET r == processed_df.rows[i]
                  first == filtered_df.rows[1]["State"]
              IN  /\ Len(first) > 2 =>
                        r["StateCode"] =
                            DictGet(state_name_to_code, r["State"], r["State"])
                  /\ Len(first) <= 2 => r["StateCode"] = r["State"]
                  /\ (Len(first) <= 2 /\ r["State"] \in StateNames) =>
                        /\ r["StateCode"] = r["State"]
                        /\ r["MappedRegion"] = "Unknown"
                  /\ (Len(first) > 2 /\ r["State"] \notin StateNames) =>
                        r["StateCode"] = r["State"]

\* a code-form render with a full-name row, which keeps its name as code
C12_Witness ==
    /\ status = "done"
    /\ CodeForm
    /\ \E i \in DOMAIN processed_df.rows :
          /\ processed_df.rows[i]["State"] = "New York"
          /\ processed_df.rows[i]["StateCode"] = "New York"
          /\ processed_df.rows[i]["MappedRegion"] = "Unknown"

\* two consecutive renders of one uploaded table.  A row retained by two
\* selections has the selected specialty in both, so the two selections
\* differ in the region only and are one SelectRegion step apart.
TwoRenders ==
    /\ uploaded_file /\ uploaded_file'
    /\ df' = df
    /\ status = "done" /\ status' = "done"

\* every row in both normalised tables has the same resolved code and the
\* same resolved region in both
SameResolution ==
    \A i \in DOMAIN processed_df.rows :
       \A j \in DOMAIN processed_df'.rows :
          processed_df.rows[i]["NPI"] = processed_df'.rows[j]["NPI"] =>
             /\ processed_df.rows[i]["StateCode"] = processed_df'.rows[j]["StateCode"]
             /\ processed_df.rows[i]["MappedRegion"] =
                   processed_df'.rows[j]["MappedRegion"]

\* the first rows of the two filtered tables have the same form
SameFirstRowForm ==
    (Len(filtered_df.rows[1]["State"]) > 2)
        <=> (Len(filtered_df'.rows[1]["State"]) > 2)

\* C13 as stated: for one uploaded table, a row retained by two different
\* selections gets the same resolved code and the same resolved region in
\* both renders.
C13_SelectionIndependent ==
    [][TwoRenders => SameResolution]_vars

\* C13 as amended: for one uploaded table, a row retained by two different
\* selections gets the same resolved code and the same resolved region in
\* both renders whenever the first rows of the two filtered tables have the
\* same form (State longer than 2 in both, or at most 2 in both); when the
\* forms differ the row is normalised by the other rule and its code and
\* region may change.
C13_SameFormIndependent ==
    [][(TwoRenders /\ SameFirstRowForm) => SameResolution]_vars

\* the normalised table of the current specialty with no region selected
AllRegionsProcessed ==
    standardize_state_codes(ApplyFilters(df, selected_specialty, None))

\* a render under a region filter of a table whose rows of the selected
\* specialty mix both forms: with no region selected the table starts with
\* another row of the same form, and a row retained by both selections is
\* resolved alike in both
C13_Witness ==
    /\ status = "done"
    /\ selected_region # None
    /\ Len(AllRegionsProcessed.rows) > Len(processed_df.rows)
    /\ AllRegionsProcessed.rows[1]["NPI"] # processed_df.rows[1]["NPI"]
    /\ (Len(AllRegionsProcessed.rows[1]["State"]) > 2) <=> NameForm
    /\ \E k \in DOMAIN AllRegionsProcessed.rows :
          (Len(AllRegionsProcessed.rows[k]["State"]) > 2) <=> ~NameForm
    /\ \E i \in DOMAIN processed_df.rows :
          \E j \in DOMAIN AllRegionsProcessed.rows :
             /\ processed_df.rows[i]["NPI"] = AllRegionsProcessed.rows[j]["NPI"]
             /\ processed_df.rows[i]["StateCode"] # processed_df.rows[i]["State"]
             /\ processed_df.rows[i]["StateCode"] =
                   AllRegionsProcessed.rows[j]["StateCode"]
             /\ processed_df.rows[i]["MappedRegion"] =
                   AllRegionsProcessed.rows[j]["MappedRegion"]

====
